---- MODULE Spec2Model ----
(***************************************************************************)
(* A model of the GROMACS batch preparation script (src/main.py) and of    *)
(* the residue renaming script it calls (src/replace_resname.py).          *)
(*                                                                         *)
(* The filesystem is a set of directories (paths) and a function from file *)
(* paths to file contents (sequences of lines).  A path is a sequence of   *)
(* name components resolved from the directory the process was started in *)
(* (the base directory, <<>>).  The process working directory is part of   *)
(* the state, because the script builds every path relative to it.         *)
(***************************************************************************)
EXTENDS Integers, Sequences, FiniteSets, TLC

\* ------------------------------------------------------------------ bounds

\* Longest input table (rows below the header line) of a whole run.
MaxRows == 2
\* Longest input table given to the loader on its own.
MaxLoadRows == 2
\* Longest parameter file (lines) given to the section split on its own.
MaxLines == 4
\* The sample ids of the input tables.
SampleIds == {1, 2}
\* Most calls of check_completed_samples on one processor object.
MaxChecks == 2

\* ------------------------------------------------------------ small helpers

Range(s) == {s[i] : i \in 1..Len(s)}

SeqsUpTo(S, n) == UNION {[1..k -> S] : k \in 0..n}

\* The elements of a finite set of integers, in increasing order.
RECURSIVE Ascending(_)
Ascending(S) ==
    IF S = {} THEN <<>>
    ELSE LET m == CHOOSE x \in S : \A y \in S : x <= y
         IN  <<m>> \o Ascending(S \ {m})

\* str(n) for the integers of the model (main.py:171, main.py:396).
DecimalDigits == <<"1", "2", "3", "4", "5", "6", "7", "8", "9">>
str(n) == DecimalDigits[n]

\* ------------------------------------------------------------- filesystem

BaseDir == <<>>

\* Path(a) / name
Join(dir, name) == Append(dir, name)

IsUnder(p, dir) == Len(p) > Len(dir) /\ SubSeq(p, 1, Len(dir)) = dir

\* open(p, 'w').write(c): create or replace one file.
WriteFile(f, p, c) == [q \in (DOMAIN f) \cup {p} |-> IF q = p THEN c ELSE f[q]]

\* os.remove(p)
RemoveFile(f, p) == [q \in (DOMAIN f) \ {p} |-> f[q]]

\* shutil.rmtree(dir): the files of the tree.
RemoveTree(f, dir) == [q \in {r \in DOMAIN f : ~IsUnder(r, dir)} |-> f[q]]

\* The file names directly inside dir.
FilesIn(f, dir) == {p[Len(p)] : p \in {q \in DOMAIN f : Len(q) = Len(dir) + 1 /\ IsUnder(q, dir)}}

\* ------------------------------------------------------- the input table

(***************************************************************************)
(* A table is the text of the csv file: a header of column names and rows  *)
(* of cells.  A cell is the text between two commas:                       *)
(*   k = "int"   an integer literal, value v          ("7")                *)
(*   k = "frac"  a decimal literal with a fraction, integer part v ("7.5") *)
(*   k = "text"  text that is no number               ("abc")              *)
(*   k = "nan"   an empty cell                                             *)
(***************************************************************************)
IntCell(n)  == [k |-> "int",  v |-> n]
FracCell(n) == [k |-> "frac", v |-> n]
TextCell    == [k |-> "text", v |-> 0]
NanCell     == [k |-> "nan",  v |-> 0]

required_columns == <<"sample", "CID_A", "CID_B">>

\* str.lower() on the column names of the model.
lower(name) ==
    CASE name = "Sample" -> "sample"
      [] name = "SAMPLE" -> "sample"
      [] name = "CID_A"  -> "cid_a"
      [] name = "CID_B"  -> "cid_b"
      [] OTHER           -> name

\* The dtype pandas.read_csv gives a column: one non-numeric cell makes the
\* whole column object (every cell is kept as its text), otherwise a fraction
\* or an empty cell makes it float64, otherwise it is int64.
ColumnDtype(cells) ==
    IF \E c \in cells : c.k = "text" THEN "object"
    ELSE IF \E c \in cells : c.k \in {"frac", "nan"} THEN "float64"
    ELSE "int64"

\* The Python value row[col] of a cell in a column of the given dtype:
\*   t = "nan" float('nan'); "int" an integer; "float" a float (v, or v + 0.5
\*   when lit = "frac"); "str" the cell's text, whose literal kind is lit.
PyValue(cell, dtype) ==
    IF cell.k = "nan" THEN [t |-> "nan", v |-> 0, lit |-> "nan"]
    ELSE IF dtype = "object" THEN [t |-> "str", v |-> cell.v, lit |-> cell.k]
    ELSE IF dtype = "float64" THEN [t |-> "float", v |-> cell.v, lit |-> cell.k]
    ELSE [t |-> "int", v |-> cell.v, lit |-> cell.k]

\* pd.isna(x)
isna(x) == x.t = "nan"

\* isinstance(x, (int, float, np.int64))
IsNumberInstance(x) == x.t \in {"int", "float", "nan"}

\* int(x) raises ValueError on text that is no integer literal.
IntRaises(x) == x.t = "nan" \/ (x.t = "str" /\ x.lit # "int")
\* int(x) otherwise: the integer, a float truncated, an integer literal parsed.
int(x) == x.v

\* main.py:106-132: the header after the case-insensitive renaming, or
\* <<>> when a required column cannot be matched (ValueError).
MatchedColumn(header, req) ==
    LET hits == {i \in 1..Len(header) : lower(header[i]) = lower(req)}
    IN  IF hits = {} THEN 0 ELSE CHOOSE i \in hits : \A j \in hits : i <= j

ResolveHeader(header) ==
    LET missing_columns == {i \in 1..3 : required_columns[i] \notin Range(header)}
        matched == [i \in 1..3 |-> MatchedColumn(header, required_columns[i])]
    IN  IF missing_columns = {} THEN header
        ELSE IF \A i \in 1..3 : matched[i] # 0
             THEN [j \in 1..Len(header) |->
                     IF \E i \in 1..3 : matched[i] = j
                     THEN required_columns[CHOOSE i \in 1..3 : matched[i] = j]
                     ELSE header[j]]
             ELSE <<>>

ColumnOf(header, name) == CHOOSE j \in 1..Len(header) : header[j] = name

\* main.py:136-153, one row: "skip" (warning and continue), "raise" (int()
\* of the sample id raises, which leaves the loop and the function), "keep".
RowVerdict(sample_id, cid_a, cid_b) ==
    IF isna(sample_id) \/ isna(cid_a) \/ isna(cid_b) THEN "skip"
    ELSE IF ~IsNumberInstance(cid_a) \/ ~IsNumberInstance(cid_b) THEN "skip"
    ELSE IF IntRaises(sample_id) THEN "raise"
    ELSE "keep"

\* main.py:92-163.  The result is [raised, samples, warnings]: raised when the
\* function leaves by an exception (self.samples and stats['total'] are then
\* not assigned), samples the valid_samples list, warnings the number of
\* skipped-row warnings logged.
read_mol_csv(table) ==
    LET header == ResolveHeader(table.header)
        n      == Len(table.rows)
        Col(name) == ColumnOf(header, name)
        Dtype(name) == ColumnDtype({table.rows[i][Col(name)] : i \in 1..n})
        Val(i, name) == PyValue(table.rows[i][Col(name)], Dtype(name))
        Verdict(i) == RowVerdict(Val(i, "sample"), Val(i, "CID_A"), Val(i, "CID_B"))
        Item(i) == [Sample |-> int(Val(i, "sample")),
                    CID_A  |-> int(Val(i, "CID_A")),
                    CID_B  |-> int(Val(i, "CID_B"))]
        Kept(i) == Verdict(i) = "keep"
        kept   == Ascending({i \in 1..n : Kept(i)})
    IN  IF header = <<>> THEN [raised |-> TRUE, samples |-> <<>>, warnings |-> 0]
        ELSE IF \E i \in 1..n : Verdict(i) = "raise"
             THEN [raised |-> TRUE, samples |-> <<>>,
                   warnings |-> Cardinality({i \in 1..n : Verdict(i) = "skip"
                                   /\ \A j \in 1..i : Verdict(j) # "raise"})]
        ELSE [raised |-> FALSE,
              samples |-> [j \in 1..Len(kept) |-> Item(kept[j])],
              warnings |-> Cardinality({i \in 1..n : Verdict(i) = "skip"})]

\* --------------------------------------------------- extract_atomtypes

\* The lines of the model's parameter files.  A line is its text without the
\* line end; str.strip() removes the blanks around it.
AtomtypesHeader == "[ atomtypes ]"

strip(line) ==
    CASE line = " [ atomtypes ] " -> "[ atomtypes ]"
      [] line = "  "              -> ""
      [] OTHER                    -> line

\* main.py:330-339, the scan from line i on (1-based).  st holds the loop's
\* variables: atomtypes_start and atomtypes_end are 1-based positions here,
\* with 0 for Python's -1 (st.stop is the position of the blank line that
\* ended the loop, so Python's atomtypes_end = i + 1 is st.stop counted from 1).
RECURSIVE ScanAtomtypes(_, _, _)
ScanAtomtypes(lines, i, st) ==
    IF i > Len(lines) THEN st
    ELSE IF strip(lines[i]) = AtomtypesHeader
         THEN ScanAtomtypes(lines, i + 1,
                  [st EXCEPT !.in_atomtypes = TRUE, !.atomtypes_start = i,
                             !.atomtypes_content = Append(@, lines[i])])
    ELSE IF st.in_atomtypes
         THEN IF strip(lines[i]) = ""
              THEN [st EXCEPT !.stop = i]
              ELSE ScanAtomtypes(lines, i + 1,
                       [st EXCEPT !.atomtypes_content = Append(@, lines[i])])
    ELSE ScanAtomtypes(lines, i + 1, st)

\* main.py:313-363 on the lines of itp_file: [found, sidecar, remainder].
\* found is the return value; when it is FALSE no file is written.
extract_atomtypes(lines) ==
    LET st == ScanAtomtypes(lines, 1,
                  [in_atomtypes |-> FALSE, atomtypes_start |-> 0, stop |-> 0,
                   atomtypes_content |-> <<>>])
    IN  IF st.atomtypes_start >= 1 /\ st.stop >= 1
        THEN [found |-> TRUE,
              sidecar |-> st.atomtypes_content,
              start |-> st.atomtypes_start,
              remainder |-> SubSeq(lines, 1, st.atomtypes_start - 1)
                              \o SubSeq(lines, st.stop + 1, Len(lines))]
        ELSE [found |-> FALSE, sidecar |-> <<>>, start |-> 0, remainder |-> lines]

\* --------------------------------------------------- copy_template_files

\* main.py:374-376: the files copied when the loop runs to its end, the
\* entries of template_dir that are files (sub-directories are passed over).
TemplateFiles(f, template_dir) == FilesIn(f, template_dir)

\* Mutant: a file the target directory already holds is not overwritten.
RECURSIVE CopyFilesKeepExisting(_, _, _, _)
CopyFilesKeepExisting(f, template_dir, target_dir, copied) ==
    IF copied = {} THEN f
    ELSE LET name == CHOOSE n \in copied : TRUE
             g == IF Join(target_dir, name) \in DOMAIN f THEN f
                  ELSE WriteFile(f, Join(target_dir, name), f[Join(template_dir, name)])
         IN  CopyFilesKeepExisting(g, template_dir, target_dir, copied \ {name})

\* shutil.copy2 of the template files named in copied into target_dir.
RECURSIVE CopyFiles(_, _, _, _)
CopyFiles(f, template_dir, target_dir, copied) ==
    IF copied = {} THEN f
    ELSE LET name == CHOOSE n \in copied : TRUE
         IN  CopyFiles(WriteFile(f, Join(target_dir, name), f[Join(template_dir, name)]),
                       template_dir, target_dir, copied \ {name})

\* main.py:365-383.  ds are the directories that exist; copied are the files
\* copy2 has written when the loop ends: all of them, or fewer when iterdir or
\* a copy raises (the function then returns False).
copy_template_files(f, ds, template_dir, target_dir, copied) ==
    IF template_dir \notin ds
    THEN [ok |-> FALSE, fs |-> f]
    ELSE IF target_dir \notin ds
    THEN [ok |-> TemplateFiles(f, template_dir) = {}, fs |-> f]
    ELSE [ok |-> copied = TemplateFiles(f, template_dir),
          fs |-> CopyFiles(f, template_dir, target_dir, copied)]

\* ------------------------------------------------------ replace_resname.py

\* The .mol2 files of the model: a header line, atom lines, a bond line.
\* An atom line is known by the residue name in its last column but one.
AtomLine(resname) ==
    CASE resname = "MOA" -> "1  C1  0.0  0.0  0.0  C.3  1  MOA  0.0"
      [] resname = "MOB" -> "1  C1  0.0  0.0  0.0  C.3  1  MOB  0.0"
      [] OTHER           -> "1 C1 0.0 0.0 0.0 C.3 1 UNL1 0.0"

IsAtomLine(line) == line \in {AtomLine("MOA"), AtomLine("MOB"), AtomLine("UNL1")}

\* What obabel writes (main.py:226, main.py:248): residue name UNL1.
ObabelMol2 == <<"@<TRIPOS>MOLECULE", "@<TRIPOS>ATOM", AtomLine("UNL1"), "@<TRIPOS>BOND", "1 1 2 1">>

\* filename.lower().endswith(".mol2")  (replace_resname.py:39)
IsMol2Name(name) == name \in {"MOA.mol2", "MOB.mol2"}

\* os.path.splitext(os.path.basename(file_path))[0]  (replace_resname.py:5)
BaseName(name) ==
    CASE name = "MOA.mol2" -> "MOA"
      [] name = "MOB.mol2" -> "MOB"
      [] OTHER             -> name

\* replace_resname.py:10-28 from line i on; in_atom_section is the loop's flag.
RECURSIVE RenameLines(_, _, _, _)
RenameLines(lines, i, in_atom_section, base_name) ==
    IF i > Len(lines) THEN <<>>
    ELSE IF lines[i] = "@<TRIPOS>ATOM"
         THEN <<lines[i]>> \o RenameLines(lines, i + 1, TRUE, base_name)
    ELSE IF lines[i] \in {"@<TRIPOS>MOLECULE", "@<TRIPOS>BOND"}
         THEN <<lines[i]>> \o RenameLines(lines, i + 1, FALSE, base_name)
    ELSE IF in_atom_section /\ IsAtomLine(lines[i])
         THEN <<AtomLine(base_name)>> \o RenameLines(lines, i + 1, in_atom_section, base_name)
    ELSE <<lines[i]>> \o RenameLines(lines, i + 1, in_atom_section, base_name)

\* replace_resname.py:4-33
replace_resname_in_mol2_inplace(lines, name) == RenameLines(lines, 1, FALSE, BaseName(name))

\* The directory os.walk starts from.  replace_resname.py:53 passes "." and
\* never reads sys.argv, so the directory named on the command line
\* (main.py:271) is not used: the walk starts from the working directory.
WalkRoot(working_dir, sample_dir) == working_dir

\* replace_resname.py:35-50: every .mol2 file under root_dir, at any depth.
Mol2FilesUnder(f, root_dir) ==
    {p \in DOMAIN f : IsUnder(p, root_dir) /\ IsMol2Name(p[Len(p)])}

recursive_modify_all_mol2_files(f, root_dir) ==
    [p \in DOMAIN f |->
        IF p \in Mol2FilesUnder(f, root_dir)
        THEN replace_resname_in_mol2_inplace(f[p], p[Len(p)])
        ELSE f[p]]

\* ------------------------------------------------------------ the adapters

\* One requests.get of download_pubchem_structure: the variant asked for and
\* whether it ended with status 200 and a written file.
Request(variant, ok) == [variant |-> variant, ok |-> ok]

\* Mutant: the 2D variant is requested after the 3D one in every case.
download_both_variants(f, output_path, ok3d, ok2d) ==
    [ok |-> ok3d \/ ok2d,
     fs |-> IF ok3d \/ ok2d THEN WriteFile(f, output_path, <<"sdf">>) ELSE f,
     requests |-> <<Request("3d", ok3d), Request("2d", ok2d)>>]

\* main.py:189-219.  ok3d and ok2d say whether the request for the 3D and for
\* the 2D variant ends with status 200 and a written file (anything else, a
\* network error included, falls through).  requests lists the requests made.
download_pubchem_structure(f, output_path, ok3d, ok2d) ==
    IF ok3d THEN [ok |-> TRUE, fs |-> WriteFile(f, output_path, <<"sdf">>),
                  requests |-> <<Request("3d", TRUE)>>]
    ELSE IF ok2d THEN [ok |-> TRUE, fs |-> WriteFile(f, output_path, <<"sdf">>),
                       requests |-> <<Request("3d", FALSE), Request("2d", TRUE)>>]
    ELSE [ok |-> FALSE, fs |-> f,
          requests |-> <<Request("3d", FALSE), Request("2d", FALSE)>>]

\* What an external command did: it ended with exit status 0, ended with
\* another status, or subprocess.run raised TimeoutExpired.
ToolOutcomes == {"ok", "error", "timeout"}

\* main.py:221-240
convert_sdf_to_mol2(f, sdf_path, mol2_path, outcome) ==
    IF outcome = "ok" /\ sdf_path \in DOMAIN f
    THEN [ok |-> TRUE, fs |-> RemoveFile(WriteFile(f, mol2_path, ObabelMol2), sdf_path)]
    ELSE [ok |-> FALSE, fs |-> f]

\* main.py:242-260: obabel rewrites the file in place.
optimize_molecule_geometry(f, mol2_path, outcome) ==
    IF outcome = "ok" /\ mol2_path \in DOMAIN f
    THEN [ok |-> TRUE, fs |-> WriteFile(f, mol2_path, ObabelMol2)]
    ELSE [ok |-> FALSE, fs |-> f]

\* main.py:262-284.  os.chdir(self.base_dir) is os.chdir("."), which leaves
\* the working directory as it is.  python finds replace_resname.py only in
\* the working directory; when it is not there the command ends with status 2.
run_replace_resname(f, working_dir, sample_dir, outcome) ==
    IF Join(working_dir, "replace_resname.py") \notin DOMAIN f
    THEN [ok |-> FALSE, fs |-> f, found |-> FALSE]
    ELSE IF outcome = "ok"
    THEN [ok |-> TRUE, found |-> TRUE,
          fs |-> recursive_modify_all_mol2_files(f, WalkRoot(working_dir, sample_dir))]
    ELSE [ok |-> FALSE, fs |-> f, found |-> TRUE]

\* main.py:298-300: the working directory after the acpype command.  On a
\* timeout subprocess.run raises and os.chdir(original_dir) is not reached.
CwdAfterTopology(original_dir, mol_dir, outcome) ==
    IF outcome = "timeout" THEN mol_dir ELSE original_dir

\* main.py:286-311.  made says whether acpype, ending with status 0, left its
\* output directory <basename>.acpype; itp is the parameter file it wrote.
generate_amber_topology(f, ds, working_dir, mol_dir, basename, outcome, made, itp) ==
    LET out_dir == Join(mol_dir, basename \o ".acpype")
    IN  [ok  |-> outcome = "ok",
         cwd |-> CwdAfterTopology(working_dir, mol_dir, outcome),
         dirs |-> IF outcome = "ok" /\ made THEN ds \cup {out_dir} ELSE ds,
         fs  |-> IF outcome = "ok" /\ made
                 THEN WriteFile(WriteFile(f, Join(out_dir, basename \o "_GMX.gro"), <<"gro">>),
                                Join(out_dir, basename \o "_GMX.itp"), itp)
                 ELSE f]

\* ------------------------------------------------------------------- state

VARIABLES
    table,              \* the csv file read by read_mol_csv
    fs,                 \* file path -> lines
    dirs,               \* the directories that exist
    cwd,                \* os.getcwd(), a path from the base directory
    samples,            \* self.samples
    completed_samples,  \* self.completed_samples
    failed_samples,     \* self.failed_samples (without the elapsed time)
    stats,              \* self.stats
    pc,                 \* where run() and main() are
    todo,               \* samples_to_process
    idx,                \* position of the for loop of run() in todo
    step,               \* the step process_single_sample is about to take
    success,            \* what run() returned: "none" until it returns
    exit_code,          \* sys.exit(n), -1 until main() exits
    fs0,                \* history: the files when the run started
    calls,              \* history: the requests and commands issued, by sample
    writes,             \* history: the files written by the run
    dispatches,         \* history: one record per call of process_single_sample
    last                \* history: what the step just taken did (see NoEvents)

vars == <<table, fs, dirs, cwd, samples, completed_samples, failed_samples, stats,
          pc, todo, idx, step, success, exit_code, fs0, calls, writes, dispatches, last>>

\* The record of a step: the requests it sent (main.py:197, main.py:210) and
\* the molecules whose extract_atomtypes call ended in its except branch
\* (main.py:361-363).
NoEvents == [requests |-> <<>>, extract_raised |-> {}]

Mols == {"A", "B"}
\* "MOA", "MOB"  (main.py:400-455)
Basename(mol) == "MO" \o mol

TemplateDir == <<"File">>    \* Path(self.file_dir), main.py:370
LogDir == <<"logs">>         \* main.py:46

\* main.py:174-179
KeyFiles == {"MOA_GMX.gro", "MOA_GMX.itp", "MOB_GMX.gro", "MOB_GMX.itp"}

\* The result files of the topology step and of the section split.
ArtifactNames == KeyFiles \cup {"MOA_GMX_prm.itp", "MOB_GMX_prm.itp"}

\* ----------------------------------------------------------- counters

IncCompleted(st) == [st EXCEPT !.completed = @ + 1]     \* main.py:473

\* Mutant: the except block records the failure without counting it.
IncFailedForgotten(st) == st

IncFailed(st) == [st EXCEPT !.failed = @ + 1]           \* main.py:488

\* Mutant: a directory that holds one of the key files counts as complete.
IsCompleteWithAnyKeyFile(f, ds, sample_dir) ==
    /\ sample_dir \in ds
    /\ \E k \in KeyFiles : Join(sample_dir, k) \in DOMAIN f

\* main.py:172-181: the directory exists and holds the four key files.
IsComplete(f, ds, sample_dir) ==
    /\ sample_dir \in ds
    /\ \A k \in KeyFiles : Join(sample_dir, k) \in DOMAIN f

\* main.py:165-187: the ids appended to self.completed_samples, in order.
CompletedIds(ss, f, ds, base_dir) ==
    LET Done(i) == IsComplete(f, ds, Join(base_dir, str(ss[i].Sample)))
        kept == Ascending({i \in 1..Len(ss) : Done(i)})
    IN  [j \in 1..Len(kept) |-> ss[kept[j]].Sample]

\* Mutant: every loaded sample is dispatched, the completed ones too.
samples_to_process_unfiltered(ss, completed) == ss

\* main.py:548-551
samples_to_process(ss, completed) ==
    LET Pending(i) == ss[i].Sample \notin Range(completed)
        kept == Ascending({i \in 1..Len(ss) : Pending(i)})
    IN  [j \in 1..Len(kept) |-> ss[kept[j]]]

\* Mutant: the process always exits with 0.
ExitCodeAlwaysZero(ok) == 0

\* main.py:616-621
ExitCode(ok) == IF ok THEN 0 ELSE 1

\* ------------------------------------------------------------- run()

\* main.py:536-538 with 589-591: an exception of read_mol_csv ends run()
\* with False.
ReadMolCsv ==
    /\ pc = "read"
    /\ LET r == read_mol_csv(table)
       IN  IF r.raised
           THEN /\ success' = "False"
                /\ pc' = "exit"
                /\ UNCHANGED <<samples, stats>>
           ELSE /\ samples' = r.samples
                /\ stats' = [stats EXCEPT !.total = Len(r.samples)]
                /\ pc' = "check"
                /\ UNCHANGED success
    /\ UNCHANGED <<table, fs, dirs, cwd, completed_samples, failed_samples, todo, idx,
                   step, exit_code, fs0, calls, writes, dispatches>>
    /\ last' = NoEvents

\* Mutant: the counter is added to, as the list is.
check_completed_samples_counting ==
    LET done == CompletedIds(samples, fs, dirs, cwd)
    IN  /\ completed_samples' = completed_samples \o done
        /\ stats' = [stats EXCEPT !.skipped = @ + Len(done)]

\* main.py:165-187.  self.base_dir is Path("."), the working directory.  The
\* ids are appended to the list the object holds; the counter is assigned.
check_completed_samples ==
    LET done == CompletedIds(samples, fs, dirs, cwd)
    IN  /\ completed_samples' = completed_samples \o done
        /\ stats' = [stats EXCEPT !.skipped = Len(done)]

\* main.py:541
CheckCompleted ==
    /\ pc = "check"
    /\ check_completed_samples
    /\ pc' = "filter"
    /\ UNCHANGED <<table, fs, dirs, cwd, samples, failed_samples, todo, idx, step,
                   success, exit_code, fs0, calls, writes, dispatches>>
    /\ last' = NoEvents

\* Another call of the method on the same object, after the one run() made
\* and before anything else is done (at most MaxChecks calls in all).
CheckCompletedAgain ==
    /\ pc = "filter"
    /\ Len(completed_samples) < MaxChecks * stats.skipped
    /\ check_completed_samples
    /\ UNCHANGED <<table, fs, dirs, cwd, samples, failed_samples, pc, todo, idx, step,
                   success, exit_code, fs0, calls, writes, dispatches>>
    /\ last' = NoEvents

\* main.py:543-557
FilterPending ==
    /\ pc = "filter"
    /\ IF stats.total = 0
       THEN success' = "False" /\ pc' = "exit" /\ UNCHANGED <<todo, idx, step>>
       ELSE LET pending == samples_to_process(samples, completed_samples)
            IN  /\ todo' = pending
                /\ IF pending = <<>>
                   THEN success' = "True" /\ pc' = "exit" /\ UNCHANGED <<idx, step>>
                   ELSE /\ pc' = "pipeline" /\ idx' = 1 /\ step' = <<"FETCH", "A">>
                        /\ UNCHANGED success
    /\ UNCHANGED <<table, fs, dirs, cwd, samples, completed_samples, failed_samples,
                   stats, exit_code, fs0, calls, writes, dispatches>>
    /\ last' = NoEvents

\* ------------------------------------------------ process_single_sample

Cur == todo[idx]
\* Path(str(sample_id)), main.py:396: relative, so under the working directory.
SampleDir == Join(cwd, str(Cur.Sample))

\* The parameter file acpype leaves in whole runs: it holds the section,
\* ended by a blank line.  (Other files are given to the split on its own,
\* see ItpLines.)
ItpFiles == { <<"[ atoms ]", "[ atomtypes ]", "c3", "", "[ bonds ]">> }

\* Mutant: the loop ends after the item it has.
NextItemEndsLoop == idx' = idx /\ step' = <<"idle", "">> /\ pc' = "report"

\* main.py:567: the loop takes the next item, or ends (main.py:577 follows).
NextItem ==
    IF idx < Len(todo)
    THEN idx' = idx + 1 /\ step' = <<"FETCH", "A">> /\ pc' = "pipeline"
    ELSE idx' = idx /\ step' = <<"idle", "">> /\ pc' = "report"

\* The step goes on to the next one of the same call.
Continue(next) ==
    /\ step' = next
    /\ UNCHANGED <<pc, idx, completed_samples, failed_samples, stats, dispatches>>

\* Mutant: the except block counts the failure and does not list it.
RecordFailureUnlisted(msg, own) ==
    /\ stats' = IncFailed(stats)
    /\ dispatches' = Append(dispatches,
           [Sample |-> Cur.Sample, dir |-> SampleDir, outcome |-> "failed",
            at |-> step[1], own_fault |-> own])
    /\ NextItem
    /\ UNCHANGED <<completed_samples, failed_samples>>

\* main.py:477-490.  own says whether the step failed by what its own request
\* or command did (a status, an exception, a timeout), and not by the state
\* an earlier call left behind.
RecordFailure(msg, own) ==
    /\ failed_samples' = Append(failed_samples, [Sample |-> Cur.Sample, Error |-> msg])
    /\ stats' = IncFailed(stats)
    /\ dispatches' = Append(dispatches,
           [Sample |-> Cur.Sample, dir |-> SampleDir, outcome |-> "failed",
            at |-> step[1], own_fault |-> own])
    /\ NextItem
    /\ UNCHANGED completed_samples

\* main.py:467-475
RecordSuccess ==
    /\ completed_samples' = Append(completed_samples, Cur.Sample)
    /\ stats' = IncCompleted(stats)
    /\ dispatches' = Append(dispatches,
           [Sample |-> Cur.Sample, dir |-> SampleDir, outcome |-> "completed",
            at |-> "", own_fault |-> FALSE])
    /\ NextItem
    /\ UNCHANGED failed_samples

Called(tool) == calls' = calls \cup {[tool |-> tool, sample |-> Cur.Sample]}

Cid(mol) == IF mol = "A" THEN Cur.CID_A ELSE Cur.CID_B

\* main.py:394-407 (the directory is made before the first download)
Fetch(mol) ==
    /\ pc = "pipeline" /\ step = <<"FETCH", mol>>
    /\ \E ok3d, ok2d \in BOOLEAN :
         LET path == Join(SampleDir, Basename(mol) \o ".sdf")
             d == download_pubchem_structure(fs, path, ok3d, ok2d)
         IN  /\ fs' = d.fs
             /\ last' = [NoEvents EXCEPT !.requests = d.requests]
             /\ writes' = IF d.ok THEN writes \cup {path} ELSE writes
             /\ IF d.ok
                THEN Continue(IF mol = "A" THEN <<"FETCH", "B">> ELSE <<"CONVERT", "A">>)
                ELSE RecordFailure("cannot download structure of molecule " \o mol
                                       \o " (CID: " \o str(Cid(mol)) \o ")", TRUE)
    /\ dirs' = dirs \cup {SampleDir}
    /\ Called("fetch")
    /\ UNCHANGED <<table, cwd, samples, todo, success, exit_code, fs0>>

\* main.py:409-417
Convert(mol) ==
    /\ pc = "pipeline" /\ step = <<"CONVERT", mol>>
    /\ \E outcome \in ToolOutcomes :
         LET sdf == Join(SampleDir, Basename(mol) \o ".sdf")
             mol2 == Join(SampleDir, Basename(mol) \o ".mol2")
             r == convert_sdf_to_mol2(fs, sdf, mol2, outcome)
         IN  /\ fs' = r.fs
             /\ writes' = IF r.ok THEN writes \cup {mol2} ELSE writes
             /\ IF r.ok
                THEN Continue(IF mol = "A" THEN <<"CONVERT", "B">> ELSE <<"OPTIMIZE", "A">>)
                ELSE RecordFailure("format conversion of molecule " \o mol \o " failed", TRUE)
    /\ Called("convert")
    /\ UNCHANGED <<table, dirs, cwd, samples, todo, success, exit_code, fs0>>
    /\ last' = NoEvents

\* main.py:419-424
Optimize(mol) ==
    /\ pc = "pipeline" /\ step = <<"OPTIMIZE", mol>>
    /\ \E outcome \in ToolOutcomes :
         LET mol2 == Join(SampleDir, Basename(mol) \o ".mol2")
             r == optimize_molecule_geometry(fs, mol2, outcome)
         IN  /\ fs' = r.fs
             /\ writes' = IF r.ok THEN writes \cup {mol2} ELSE writes
             /\ IF r.ok
                THEN Continue(IF mol = "A" THEN <<"OPTIMIZE", "B">> ELSE <<"RENAME", "">>)
                ELSE RecordFailure("geometry optimization of molecule " \o mol \o " failed", TRUE)
    /\ Called("optimize")
    /\ UNCHANGED <<table, dirs, cwd, samples, todo, success, exit_code, fs0>>
    /\ last' = NoEvents

\* main.py:426-428
Rename ==
    /\ pc = "pipeline" /\ step = <<"RENAME", "">>
    /\ \E outcome \in ToolOutcomes :
         LET r == run_replace_resname(fs, cwd, SampleDir, outcome)
         IN  /\ fs' = r.fs
             /\ writes' = IF r.ok
                          THEN writes \cup Mol2FilesUnder(fs, WalkRoot(cwd, SampleDir))
                          ELSE writes
             /\ IF r.ok
                THEN Continue(<<"TOPOLOGY", "A">>)
                ELSE RecordFailure("residue renaming failed", r.found)
    /\ Called("rename")
    /\ UNCHANGED <<table, dirs, cwd, samples, todo, success, exit_code, fs0>>
    /\ last' = NoEvents

\* main.py:430-435
Topology(mol) ==
    /\ pc = "pipeline" /\ step = <<"TOPOLOGY", mol>>
    /\ \E outcome \in ToolOutcomes, made \in BOOLEAN, itp \in ItpFiles :
         LET r == generate_amber_topology(fs, dirs, cwd, SampleDir, Basename(mol),
                                          outcome, made, itp)
         IN  /\ fs' = r.fs
             /\ dirs' = r.dirs
             /\ cwd' = r.cwd
             /\ writes' = writes \cup ((DOMAIN r.fs) \cap
                    {Join(Join(SampleDir, Basename(mol) \o ".acpype"), Basename(mol) \o x) :
                       x \in {"_GMX.gro", "_GMX.itp"}} \cap
                    (IF r.ok /\ made THEN DOMAIN r.fs ELSE {}))
             /\ IF r.ok
                THEN Continue(IF mol = "A" THEN <<"TOPOLOGY", "B">> ELSE <<"ORGANIZE", "">>)
                ELSE RecordFailure("topology generation of molecule " \o mol \o " failed", TRUE)
    /\ Called("topology")
    /\ UNCHANGED <<table, samples, todo, success, exit_code, fs0>>
    /\ last' = NoEvents

\* Mutant: the output directory is left where it is.
OrganizeOneKeepsDir(f, ds, sample_dir, basename) ==
    LET out_dir == Join(sample_dir, basename \o ".acpype")
        gro == basename \o "_GMX.gro"
        itp == basename \o "_GMX.itp"
        f1 == WriteFile(f, Join(sample_dir, gro), f[Join(out_dir, gro)])
        f2 == WriteFile(f1, Join(sample_dir, itp), f[Join(out_dir, itp)])
    IN  IF out_dir \notin ds \/ Join(out_dir, gro) \notin DOMAIN f
             \/ Join(out_dir, itp) \notin DOMAIN f
        THEN [raised |-> out_dir \in ds, fs |-> f, dirs |-> ds, copied |-> {}]
        ELSE [raised |-> FALSE, fs |-> f2, dirs |-> ds,
              copied |-> {Join(sample_dir, gro), Join(sample_dir, itp)}]

\* main.py:441-444 (446-449 for B).  raised: shutil.copy2 found no such file.
OrganizeOne(f, ds, sample_dir, basename) ==
    LET out_dir == Join(sample_dir, basename \o ".acpype")
        gro == basename \o "_GMX.gro"
        itp == basename \o "_GMX.itp"
        f1 == WriteFile(f, Join(sample_dir, gro), f[Join(out_dir, gro)])
        f2 == WriteFile(f1, Join(sample_dir, itp), f[Join(out_dir, itp)])
    IN  IF out_dir \notin ds THEN [raised |-> FALSE, fs |-> f, dirs |-> ds, copied |-> {}]
        ELSE IF Join(out_dir, gro) \notin DOMAIN f
             THEN [raised |-> TRUE, fs |-> f, dirs |-> ds, copied |-> {}]
        ELSE IF Join(out_dir, itp) \notin DOMAIN f
             THEN [raised |-> TRUE, fs |-> f1, dirs |-> ds, copied |-> {Join(sample_dir, gro)}]
        ELSE [raised |-> FALSE, fs |-> RemoveTree(f2, out_dir),
              dirs |-> {d \in ds : d # out_dir /\ ~IsUnder(d, out_dir)},
              copied |-> {Join(sample_dir, gro), Join(sample_dir, itp)}]

\* main.py:437-449
Organize ==
    /\ pc = "pipeline" /\ step = <<"ORGANIZE", "">>
    /\ LET a == OrganizeOne(fs, dirs, SampleDir, "MOA")
           b == IF a.raised THEN a ELSE OrganizeOne(a.fs, a.dirs, SampleDir, "MOB")
       IN  /\ fs' = b.fs
           /\ dirs' = b.dirs
           /\ writes' = writes \cup a.copied \cup b.copied
           /\ IF b.raised
              THEN RecordFailure("No such file or directory", TRUE)
              ELSE Continue(<<"EXTRACT", "">>)
    /\ UNCHANGED <<table, cwd, samples, todo, success, exit_code, fs0, calls>>
    /\ last' = NoEvents

\* Mutant: the sidecar file is written whether or not the section was found.
ExtractOneAlwaysSidecar(f, sample_dir, basename, raises) ==
    LET itp == Join(sample_dir, basename \o "_GMX.itp")
        prm == Join(sample_dir, basename \o "_GMX_prm.itp")
        r == extract_atomtypes(f[itp])
    IN  IF itp \in DOMAIN f /\ ~raises
        THEN WriteFile(WriteFile(f, prm, r.sidecar), itp, r.remainder)
        ELSE f

\* main.py:457-458 (460-461 for B): the files after extract_atomtypes.
\* raises: reading the file raises (main.py:318-319); the except branch
\* (main.py:361-363) logs it and returns False with nothing written.
ExtractOne(f, sample_dir, basename, raises) ==
    LET itp == Join(sample_dir, basename \o "_GMX.itp")
        prm == Join(sample_dir, basename \o "_GMX_prm.itp")
        r == extract_atomtypes(f[itp])
    IN  IF itp \in DOMAIN f /\ ~raises /\ r.found
        THEN WriteFile(WriteFile(f, prm, r.sidecar), itp, r.remainder)
        ELSE f

\* main.py:451-461.  The value extract_atomtypes returns is not looked at.
ExtractParams ==
    /\ pc = "pipeline" /\ step = <<"EXTRACT", "">>
    /\ \E raisesA, raisesB \in BOOLEAN :
         LET Itp(basename) == Join(SampleDir, basename \o "_GMX.itp")
         IN  /\ fs' = ExtractOne(ExtractOne(fs, SampleDir, "MOA", raisesA),
                                 SampleDir, "MOB", raisesB)
             /\ last' = [NoEvents EXCEPT !.extract_raised =
                            {b \in {"MOA", "MOB"} : Itp(b) \in DOMAIN fs
                                /\ (IF b = "MOA" THEN raisesA ELSE raisesB)}]
    /\ writes' = writes \cup {p \in DOMAIN fs' : p \notin DOMAIN fs \/ fs'[p] # fs[p]}
    /\ Continue(<<"DEPLOY", "">>)
    /\ UNCHANGED <<table, dirs, cwd, samples, todo, success, exit_code, fs0, calls>>

\* main.py:463-475.  Path(self.file_dir) is relative to the working directory.
Deploy ==
    /\ pc = "pipeline" /\ step = <<"DEPLOY", "">>
    /\ LET template_dir == cwd \o TemplateDir
       IN  \E copied \in SUBSET TemplateFiles(fs, template_dir) :
             LET r == copy_template_files(fs, dirs, template_dir, SampleDir, copied)
             IN  /\ fs' = r.fs
                 /\ writes' = writes \cup {p \in DOMAIN r.fs : p \notin DOMAIN fs \/ r.fs[p] # fs[p]}
                                     \cup {Join(SampleDir, n) : n \in
                                             IF template_dir \in dirs THEN copied ELSE {}}
                 /\ IF r.ok
                    THEN RecordSuccess
                    ELSE RecordFailure("template deployment failed", template_dir \in dirs)
    /\ Called("deploy")
    /\ UNCHANGED <<table, dirs, cwd, samples, todo, success, exit_code, fs0>>
    /\ last' = NoEvents

\* ------------------------------------------------- the end of run(), main()

\* main.py:577-587, generate_report (main.py:492-532): the report is opened
\* under Path("logs"), relative to the working directory; a failure to open it
\* is logged and the run goes on.
GenerateReport ==
    /\ pc = "report"
    /\ LET report_file == Join(cwd \o LogDir, "processing_report.txt")
       IN  IF cwd \o LogDir \in dirs
           THEN /\ fs' = WriteFile(fs, report_file, <<"report">>)
                /\ writes' = writes \cup {report_file}
           ELSE UNCHANGED <<fs, writes>>
    /\ success' = IF stats.failed = 0 THEN "True" ELSE "False"
    /\ pc' = "exit"
    /\ UNCHANGED <<table, dirs, cwd, samples, completed_samples, failed_samples, stats,
                   todo, idx, step, exit_code, fs0, calls, dispatches>>
    /\ last' = NoEvents

\* main.py:614-621
Exit ==
    /\ pc = "exit"
    /\ exit_code' = ExitCode(success = "True")
    /\ pc' = "done"
    /\ UNCHANGED <<table, fs, dirs, cwd, samples, completed_samples, failed_samples, stats,
                   todo, idx, step, success, fs0, calls, writes, dispatches>>
    /\ last' = NoEvents

\* ------------------------------------------------------- initial states

\* The rows of the tables given to whole runs: a valid row for each sample
\* id and a row whose sample id is text.
RunRows == {<<IntCell(i), IntCell(1), IntCell(2)>> : i \in SampleIds}
             \cup {<<TextCell, IntCell(1), IntCell(2)>>}

RenamedMol2(basename) == replace_resname_in_mol2_inplace(ObabelMol2, basename \o ".mol2")

\* The base directory a run starts in: the two scripts' directory with the
\* template directory and the log directory (made by __init__, main.py:46-47).
BaseFs == (<<"replace_resname.py">> :> <<"script">>)
            @@ (<<"File", "md.mdp">> :> <<"mdp">>)
            @@ (<<"logs", "gromacs_processor.log">> :> <<"log">>)

\* The files an earlier, successful run left in the directory of sample i.
CompleteDirFs(i) ==
    LET d == <<str(i)>>
        itp == extract_atomtypes(<<"[ atoms ]", "[ atomtypes ]", "c3", "", "[ bonds ]">>)
    IN  (Join(d, "MOA.mol2") :> RenamedMol2("MOA"))
          @@ (Join(d, "MOB.mol2") :> RenamedMol2("MOB"))
          @@ (Join(d, "MOA_GMX.gro") :> <<"gro">>)
          @@ (Join(d, "MOB_GMX.gro") :> <<"gro">>)
          @@ (Join(d, "MOA_GMX.itp") :> itp.remainder)
          @@ (Join(d, "MOB_GMX.itp") :> itp.remainder)
          @@ (Join(d, "MOA_GMX_prm.itp") :> itp.sidecar)
          @@ (Join(d, "MOB_GMX_prm.itp") :> itp.sidecar)
          @@ (Join(d, "md.mdp") :> <<"mdp">>)

RECURSIVE InitFs(_)
InitFs(done) ==
    IF done = {} THEN BaseFs
    ELSE LET i == CHOOSE j \in done : TRUE
         IN  CompleteDirFs(i) @@ InitFs(done \ {i})

NoStats == [total |-> 0, completed |-> 0, failed |-> 0, skipped |-> 0]

\* The state after GromacsProcessor.__init__ (main.py:28-53), before run().
InitWith(t, f, ds) ==
    /\ table = t
    /\ fs = f /\ fs0 = f
    /\ dirs = ds
    /\ cwd = BaseDir
    /\ samples = <<>> /\ completed_samples = <<>> /\ failed_samples = <<>>
    /\ stats = NoStats
    /\ pc = "read"
    /\ todo = <<>> /\ idx = 0 /\ step = <<"idle", "">>
    /\ success = "none" /\ exit_code = -1
    /\ calls = {} /\ writes = {} /\ dispatches = <<>>
    /\ last = NoEvents

Init ==
    \E rows \in SeqsUpTo(RunRows, MaxRows), done \in SUBSET SampleIds :
        InitWith([header |-> required_columns, rows |-> rows], InitFs(done),
                 {BaseDir, TemplateDir, LogDir} \cup {<<str(i)>> : i \in done})

Next ==
    \/ ReadMolCsv
    \/ CheckCompleted
    \/ FilterPending
    \/ \E mol \in Mols : Fetch(mol)
    \/ \E mol \in Mols : Convert(mol)
    \/ \E mol \in Mols : Optimize(mol)
    \/ Rename
    \/ \E mol \in Mols : Topology(mol)
    \/ Organize
    \/ ExtractParams
    \/ Deploy
    \/ GenerateReport
    \/ Exit

Spec == Init /\ [][Next]_vars

\* Every request and every command returns (each has a timeout, main.py:197,
\* 227, 249, 272, 298) and the script does nothing but run: a step that can
\* be taken is taken.  This is weak fairness of Next.  A step of Next changes
\* pc, idx or step, and one can be taken in every state but the last, so
\* ENABLED <<Next>>_vars is the state predicate NextEnabled; WF_vars(Next) is
\* written out with it, and the fairness of the last step, which it implies,
\* is stated as such.
NextEnabled == pc # "done"

FairSpec ==
    Spec /\ WF_vars(Exit) /\ ([]<>(~NextEnabled) \/ []<><<Next>>_vars)

\* ------------------------------------ the start of a run over what earlier runs left

\* What an earlier run left of a sample's directory: nothing, or the
\* directory (".") with any of the four key files and the files that are
\* no key files.
DirStates == {{}} \cup {K \cup {"."} : K \in SUBSET KeyFiles}

LeftDirFs(i, left) ==
    [p \in {q \in DOMAIN CompleteDirFs(i) :
               "." \in left /\ (q[Len(q)] \in KeyFiles => q[Len(q)] \in left)}
       |-> CompleteDirFs(i)[p]]

RECURSIVE ResumeFs(_, _)
ResumeFs(left, ids) ==
    IF ids = {} THEN BaseFs
    ELSE LET i == CHOOSE j \in ids : TRUE
         IN  LeftDirFs(i, left[i]) @@ ResumeFs(left, ids \ {i})

\* The tables are valid rows here, every row a work item.
InitResume ==
    \E rows \in SeqsUpTo({<<IntCell(i), IntCell(1), IntCell(2)>> : i \in SampleIds}, MaxRows),
       left \in [SampleIds -> DirStates] :
        InitWith([header |-> required_columns, rows |-> rows], ResumeFs(left, SampleIds),
                 {BaseDir, TemplateDir, LogDir}
                    \cup {<<str(i)>> : i \in {j \in SampleIds : "." \in left[j]}})

\* run() up to the first step of the calls it makes (main.py:536-568, 394-407).
SpecResume ==
    InitResume /\ [][ReadMolCsv \/ CheckCompleted \/ FilterPending \/ \E mol \in Mols : Fetch(mol)]_vars

\* The completion checker called again on what the first call left.
SpecCheck == InitResume /\ [][ReadMolCsv \/ CheckCompleted \/ CheckCompletedAgain]_vars

\* ------------------------------------------- the loader on its own tables

LoadHeaders == {required_columns, <<"Sample", "cid_a", "CID_B">>, <<"sample", "CID_A", "name">>}

LoadRows == {<<s, a, b>> : s \in {IntCell(i) : i \in SampleIds} \cup {FracCell(1), TextCell, NanCell},
                           a \in {IntCell(1), FracCell(1), TextCell, NanCell},
                           b \in {IntCell(2), TextCell}}

InitLoad ==
    \E h \in LoadHeaders, rows \in SeqsUpTo(LoadRows, MaxLoadRows) :
        InitWith([header |-> h, rows |-> rows], BaseFs, {BaseDir, TemplateDir, LogDir})

SpecLoad == InitLoad /\ [][ReadMolCsv]_vars

\* ------------------------------ the section split on its own parameter files

ItpLines == {"[ atomtypes ]", " [ atomtypes ] ", "", "  ", "c3", "[ bonds ]"}

\* A call of process_single_sample for sample 1 that has reached step 8 with
\* MOA_GMX.itp in its directory.
AtStep(st, f, ds) ==
    /\ table = [header |-> required_columns, rows |-> <<<<IntCell(1), IntCell(1), IntCell(2)>>>>]
    /\ fs = f /\ fs0 = f
    /\ dirs = ds
    /\ cwd = BaseDir
    /\ samples = <<[Sample |-> 1, CID_A |-> 1, CID_B |-> 2]>>
    /\ completed_samples = <<>> /\ failed_samples = <<>>
    /\ stats = [NoStats EXCEPT !.total = 1]
    /\ pc = "pipeline"
    /\ todo = samples /\ idx = 1 /\ step = <<st, "">>
    /\ success = "none" /\ exit_code = -1
    /\ calls = {} /\ writes = {} /\ dispatches = <<>>
    /\ last = NoEvents

InitExtract ==
    \E lines \in SeqsUpTo(ItpLines, MaxLines) :
        AtStep("EXTRACT", (<<"1", "MOA_GMX.itp">> :> lines) @@ BaseFs,
               {BaseDir, TemplateDir, LogDir, <<"1">>})

SpecExtract == InitExtract /\ [][ExtractParams]_vars

\* The same call taken to its end: steps 8 and 9 (main.py:451-475).
SpecExtractDeploy == InitExtract /\ [][ExtractParams \/ Deploy]_vars

\* ------------------------------------ the organizing on its own directories

\* What the topology step left for one molecule: no output directory, or the
\* directory with any of the two result files and, maybe, another file and a
\* sub-directory; and what the sample directory held of its result files.
OutDirStates ==
    {{}} \cup {K \cup {"."} : K \in SUBSET {"_GMX.gro", "_GMX.itp", "_GMX.top", "tmp/"}}

OrganizeFs(basename, out, stale) ==
    LET d == <<"1", basename \o ".acpype">>
    IN  [p \in {Join(d, basename \o x) : x \in out \cap {"_GMX.gro", "_GMX.itp", "_GMX.top"}}
                \cup (IF "tmp/" \in out THEN {d \o <<"tmp", "leap.log">>} ELSE {})
                \cup (IF stale THEN {<<"1", basename \o "_GMX.gro">>} ELSE {})
           |-> IF Len(p) = 2 THEN <<"old">> ELSE <<"new">>]

OrganizeDirs(basename, out) ==
    (IF "." \in out THEN {<<"1", basename \o ".acpype">>} ELSE {})
      \cup (IF "tmp/" \in out THEN {<<"1", basename \o ".acpype", "tmp">>} ELSE {})

\* A call of process_single_sample for sample 1 that has reached step 7.
InitOrganize ==
    \E outA, outB \in OutDirStates, staleA, staleB \in BOOLEAN :
        AtStep("ORGANIZE",
               OrganizeFs("MOA", outA, staleA) @@ OrganizeFs("MOB", outB, staleB) @@ BaseFs,
               {BaseDir, TemplateDir, LogDir, <<"1">>}
                  \cup OrganizeDirs("MOA", outA) \cup OrganizeDirs("MOB", outB))

SpecOrganize == InitOrganize /\ [][Organize]_vars

\* ------------------------------------- the deployment on its own directories

DeployNames == {"a.mdp", "b.top", "MOA_GMX.itp"}
DeployContents == {<<"old">>, <<"new">>}

\* The files of a directory: any of the names, each with any of the contents.
DirFiles(dir) ==
    UNION {[{Join(dir, n) : n \in names} -> DeployContents] : names \in SUBSET DeployNames}

\* A call of process_single_sample for sample 1 that has reached step 9; the
\* template directory holds files and may hold a sub-directory with a file.
InitDeploy ==
    \E t \in DirFiles(TemplateDir), d \in DirFiles(<<"1">>), sub \in BOOLEAN :
        AtStep("DEPLOY",
               t @@ d @@ (<<"replace_resname.py">> :> <<"script">>)
                 @@ (IF sub THEN (<<"File", "old", "c.mdp">> :> <<"new">>) ELSE <<>>),
               {BaseDir, TemplateDir, LogDir, <<"1">>}
                 \cup (IF sub THEN {<<"File", "old">>} ELSE {}))

SpecDeploy == InitDeploy /\ [][Deploy]_vars

\* ================================================================ claims

Finished == pc \in {"exit", "done"}

Occurrences(s) == Cardinality({j \in 1..Len(samples) : samples[j].Sample = s})

\* The sample directory of id s, seen from the base directory.
DirOf(s) == <<str(s)>>

CompleteAtStart(s) == \A k \in KeyFiles : Join(DirOf(s), k) \in DOMAIN fs0

\* ---- C1
\* C1: a failure in one sample's pipeline never changes the outcome of a later
\* sample: whenever a call of process_single_sample is recorded as failed, one
\* of its own steps failed by what its own request or command did.  (Stated
\* as the claim states it; the code does not satisfy it.)
\* The formula states it for the tables that carry each sample id once.
C1_FailureIsolation ==
    (\A j \in 1..Len(samples) : Occurrences(samples[j].Sample) = 1) =>
        \A i \in 1..Len(dispatches) :
            dispatches[i].outcome = "failed" => dispatches[i].own_fault

\* ---- C2
\* C2: after run() returns, total = completed + failed + skipped.
C2_CountersAddUp ==
    Finished => stats.total = stats.completed + stats.failed + stats.skipped

\* A run over a table that repeats a sample id, with one call completed and
\* one failed.
C2_Witness ==
    /\ pc = "done"
    /\ Len(samples) = 2 /\ samples[1].Sample = samples[2].Sample
    /\ stats.completed = 1 /\ stats.failed = 1

\* ---- C3
\* C3: a sample whose directory holds the four key files when the run starts
\* gets no fetch request and no tool invocation in that run.
C3_IdempotentSkip ==
    \A s \in SampleIds : CompleteAtStart(s) => \A c \in calls : c.sample # s

\* A finished run that skipped a complete sample and processed another one.
C3_Witness ==
    /\ pc = "done"
    /\ \E i \in 1..Len(samples) : CompleteAtStart(samples[i].Sample)
    /\ \E c \in calls : c.tool = "deploy"

\* ---- C4
\* C4: the RENAME step of sample s changes no file outside the directory of
\* s.  (Stated as the claim states it; the code does not satisfy it.)
C4_RenameStaysInSampleDir ==
    [][(pc = "pipeline" /\ step = <<"RENAME", "">>) =>
          \A p \in (DOMAIN fs) \cup (DOMAIN fs') :
              ~IsUnder(p, SampleDir) =>
                  (p \in DOMAIN fs /\ p \in DOMAIN fs' /\ fs'[p] = fs[p])]_vars

\* ---- C5
\* C5 as stated: no pipeline run is in progress for a sample id that is in the
\* completed list (the list only grows between two runs, so this is the same
\* as: none is started for it).
C5_NoDispatchOfCompleted ==
    pc = "pipeline" => Cur.Sample \notin Range(completed_samples)

\* C5 as amended: no pipeline run is started for an id that the completion
\* check put in the completed list; and one is started for an id in the
\* completed list only when the table carries that id in more than one row.
C5_NoDispatchOfCompletedUnlessRepeated ==
    pc = "pipeline" =>
        /\ Cur.Sample \notin Range(SubSeq(completed_samples, 1, stats.skipped))
        /\ Cur.Sample \in Range(completed_samples) => Occurrences(Cur.Sample) > 1

\* A second sample is dispatched after the first one was completed by its
\* pipeline run.
C5_Witness ==
    /\ pc = "pipeline" /\ idx = 2
    /\ completed_samples = <<todo[1].Sample>>
    /\ Cur.Sample # todo[1].Sample

\* ---- C6
\* C6: when the parameter file holds the section header, putting the sidecar
\* file's lines back into the rewritten file at one position gives the
\* original lines.  (Stated as the claim states it; the code does not satisfy
\* it.)
C6_ContentPreservingSplit ==
    LET itp  == <<"1", "MOA_GMX.itp">>
        prm  == <<"1", "MOA_GMX_prm.itp">>
        orig == fs0[itp]
        rest == fs[itp]
        side == IF prm \in DOMAIN fs THEN fs[prm] ELSE <<>>
    IN  (step = <<"DEPLOY", "">> /\ \E i \in 1..Len(orig) : strip(orig[i]) = AtomtypesHeader)
          => \E k \in 0..Len(rest) :
                SubSeq(rest, 1, k) \o side \o SubSeq(rest, k + 1, Len(rest)) = orig

\* ---- C7
FetchFailed(i) == dispatches[i].outcome = "failed" /\ dispatches[i].at = "FETCH"

ArtifactsWritten(s) == {p \in writes : IsUnder(p, DirOf(s)) /\ p[Len(p)] \in ArtifactNames}

FailedOnly(s) ==
    /\ ArtifactsWritten(s) = {}
    /\ \E j \in 1..Len(failed_samples) :
          failed_samples[j].Sample = s /\ failed_samples[j].Error # ""
    /\ s \notin Range(completed_samples)

\* C7 as stated: a sample whose fetch step failed has no artifact written by
\* the run, is in the failed collection with a message, and is not in the
\* completed list.
C7_FetchFailureLeavesNothing ==
    pc = "done" => \A i \in 1..Len(dispatches) : FetchFailed(i) => FailedOnly(dispatches[i].Sample)

\* C7 as amended: the same, for a sample whose id is in one row of the table
\* only.
C7_FetchFailureLeavesNothingUnlessRepeated ==
    pc = "done" =>
        \A i \in 1..Len(dispatches) :
            (FetchFailed(i) /\ Occurrences(dispatches[i].Sample) = 1)
                => FailedOnly(dispatches[i].Sample)

\* A finished run in which one sample failed at a fetch step and another one
\* was completed.
C7_Witness ==
    /\ pc = "done"
    /\ Len(dispatches) = 2
    /\ \E i, j \in 1..2 :
          /\ FetchFailed(i) /\ Occurrences(dispatches[i].Sample) = 1
          /\ dispatches[j].outcome = "completed"

\* ---- C8
\* C8: the exit code is 0 exactly when the run ended with no failed sample,
\* and it is 1 otherwise, also when the table gave no valid sample and when
\* the loader raised.
C8_ExitCode ==
    pc = "done" =>
        /\ exit_code = (IF stats.failed = 0 /\ stats.total > 0 THEN 0 ELSE 1)
        /\ read_mol_csv(table).raised => exit_code = 1

\* A run of a mixed batch: one sample completed, one failed, exit code 1.
C8_Witness == pc = "done" /\ exit_code = 1 /\ stats.failed = 1 /\ stats.completed = 1

\* ---- C9
\* The rows the claim calls valid: the three ids present and integers.
ValidRow(row) == \A j \in 1..3 : row[j].k = "int"

ExpectedItems(t) ==
    LET h == ResolveHeader(t.header)
        Valid(i) == ValidRow(t.rows[i])
        kept == Ascending({i \in 1..Len(t.rows) : Valid(i)})
    IN  [j \in 1..Len(kept) |->
            [Sample |-> t.rows[kept[j]][ColumnOf(h, "sample")].v,
             CID_A  |-> t.rows[kept[j]][ColumnOf(h, "CID_A")].v,
             CID_B  |-> t.rows[kept[j]][ColumnOf(h, "CID_B")].v]]

\* C9: for a table whose columns can be resolved, the loader does not abort
\* and loads exactly the valid rows, in table order.  (Stated as the claim
\* states it; the code does not satisfy it.)
C9_RowLevelValidation ==
    (pc # "read" /\ ResolveHeader(table.header) # <<>>)
        => (pc = "check" /\ samples = ExpectedItems(table))

\* ---- C10
\* C10: after a successful DEPLOY every template file is in the sample
\* directory with the template's content, and the other files of the sample
\* directory are as they were (none added, none removed, none changed).
C10_DeployCopiesTemplate ==
    (Len(dispatches) = 1 /\ dispatches[1].outcome = "completed") =>
        LET names == FilesIn(fs0, TemplateDir)
        IN  /\ \A n \in names :
                  /\ Join(DirOf(1), n) \in DOMAIN fs
                  /\ fs[Join(DirOf(1), n)] = fs0[Join(TemplateDir, n)]
            /\ FilesIn(fs, DirOf(1)) = FilesIn(fs0, DirOf(1)) \cup names
            /\ \A n \in FilesIn(fs0, DirOf(1)) \ names :
                  fs[Join(DirOf(1), n)] = fs0[Join(DirOf(1), n)]

\* The claim's example: the template holds a.mdp and b.top, the sample
\* directory held a.mdp with another content and a file the template has not.
C10_Witness ==
    /\ Len(dispatches) = 1 /\ dispatches[1].outcome = "completed"
    /\ FilesIn(fs0, TemplateDir) = {"a.mdp", "b.top"}
    /\ FilesIn(fs0, DirOf(1)) = {"a.mdp", "MOA_GMX.itp"}
    /\ fs0[<<"1", "a.mdp">>] = <<"old">> /\ fs0[<<"File", "a.mdp">>] = <<"new">>

\* ---- C11
HeaderAbsent(lines) == \A i \in 1..Len(lines) : strip(lines[i]) # AtomtypesHeader

\* C11: when the copied parameter file holds no section header line, step 8
\* leaves the file as it was and creates no sidecar file, and the sample is
\* not failed by it: it is recorded completed unless the deployment fails.
C11_ToleratedMiss ==
    LET itp == <<"1", "MOA_GMX.itp">>
        prm == <<"1", "MOA_GMX_prm.itp">>
    IN  (step # <<"EXTRACT", "">> /\ HeaderAbsent(fs0[itp])) =>
            /\ fs[itp] = fs0[itp]
            /\ prm \notin DOMAIN fs
            /\ pc = "pipeline" => (step = <<"DEPLOY", "">> /\ dispatches = <<>>)
            /\ pc # "pipeline" =>
                  /\ Len(dispatches) = 1
                  /\ dispatches[1].outcome = "failed" =>
                        (dispatches[1].at = "DEPLOY" /\ <<"1", "md.mdp">> \notin DOMAIN fs)
                  /\ dispatches[1].outcome = "completed" =>
                        (completed_samples = <<1>> /\ failed_samples = <<>>
                           /\ stats.completed = 1 /\ stats.failed = 0)

\* A call that ended completed on a parameter file of three lines without
\* the header.
C11_Witness ==
    /\ pc = "report"
    /\ Len(fs0[<<"1", "MOA_GMX.itp">>]) = 3 /\ HeaderAbsent(fs0[<<"1", "MOA_GMX.itp">>])
    /\ completed_samples = <<1>>
    /\ <<"1", "md.mdp">> \in DOMAIN fs

\* ---- C12
ReportWritten == \E p \in writes : p[Len(p)] = "processing_report.txt"

\* C12: a run that loaded at least one work item has written its report when
\* it ends, and has written it after the loop over the pending items; a run
\* whose total is 0 has written none.  (Stated as the claim states it; the
\* code does not satisfy it.)
C12_OneReportPerRun ==
    /\ pc = "done" => (stats.total > 0 <=> ReportWritten)
    /\ ReportWritten => (pc \in {"exit", "done"} /\ Len(dispatches) = Len(todo))

\* ---- C13
\* The steps of one call of process_single_sample, in the order of the claim.
StepOrder == << <<"FETCH", "A">>, <<"FETCH", "B">>, <<"CONVERT", "A">>, <<"CONVERT", "B">>,
                <<"OPTIMIZE", "A">>, <<"OPTIMIZE", "B">>, <<"RENAME", "">>,
                <<"TOPOLOGY", "A">>, <<"TOPOLOGY", "B">>, <<"ORGANIZE", "">>,
                <<"EXTRACT", "">>, <<"DEPLOY", "">> >>

StepIndex(st) == CHOOSE k \in 1..Len(StepOrder) : StepOrder[k] = st

\* The step taken goes on to the next step of the order, for the same item.
GoesOn ==
    /\ pc' = "pipeline" /\ idx' = idx /\ dispatches' = dispatches
    /\ StepIndex(step) < Len(StepOrder)
    /\ step' = StepOrder[StepIndex(step) + 1]

\* The step taken ends the call: its outcome is recorded and the loop takes
\* the next item from its first step, or ends.
EndsCall(outcome) ==
    /\ Len(dispatches') = Len(dispatches) + 1
    /\ dispatches'[Len(dispatches')].Sample = Cur.Sample
    /\ dispatches'[Len(dispatches')].outcome = outcome
    /\ outcome = "failed" => dispatches'[Len(dispatches')].at = step[1]
    /\ outcome = "completed" => step = StepOrder[Len(StepOrder)]
    /\ \/ pc' = "report"
       \/ pc' = "pipeline" /\ idx' = idx + 1 /\ step' = StepOrder[1]

\* C13: every step of a call either succeeds and goes on to the next step of
\* the order, or ends the call; a step that fails (an exception inside step 8
\* included, the missing header excepted) ends it as failed.  (Stated as the
\* claim states it; the code does not satisfy it.)
C13_StrictOrder ==
    [][pc = "pipeline" =>
          /\ GoesOn \/ EndsCall("failed") \/ EndsCall("completed")
          /\ last'.extract_raised # {} => EndsCall("failed")]_vars

\* ---- C14
\* The section of the claim: from the first header line up to, and without,
\* the next blank line, or up to the end of the file.
SectionStart(lines) ==
    CHOOSE i \in 1..Len(lines) :
        /\ strip(lines[i]) = AtomtypesHeader
        /\ \A j \in 1..(i - 1) : strip(lines[j]) # AtomtypesHeader

SectionEnd(lines) ==
    LET blanks == {j \in (SectionStart(lines) + 1)..Len(lines) : strip(lines[j]) = ""}
    IN  IF blanks = {} THEN Len(lines)
        ELSE (CHOOSE j \in blanks : \A k \in blanks : j <= k) - 1

\* C14: when the parameter file holds the header, the sidecar file is written
\* with the section and the section's lines are no longer in the parameter
\* file (the blank line that ends the section may stay or go).  (Stated as
\* the claim states it; the code does not satisfy it.)
C14_SectionBoundary ==
    LET itp  == <<"1", "MOA_GMX.itp">>
        prm  == <<"1", "MOA_GMX_prm.itp">>
        orig == fs0[itp]
        a    == SectionStart(orig)
        b    == SectionEnd(orig)
    IN  (step = <<"DEPLOY", "">> /\ last.extract_raised = {} /\ ~HeaderAbsent(orig)) =>
            /\ prm \in DOMAIN fs
            /\ fs[prm] = SubSeq(orig, a, b)
            /\ fs[itp] \in {SubSeq(orig, 1, a - 1) \o SubSeq(orig, b + 1, Len(orig)),
                             SubSeq(orig, 1, a - 1) \o SubSeq(orig, b + 2, Len(orig))}

\* ---- C15
\* The rows of self.samples whose directory held the four key files when the
\* run started (a file is in a directory that exists).
SkippedRows == {i \in 1..Len(samples) : CompleteAtStart(samples[i].Sample)}

\* C15: once the pending list is made, the rows left out of it are the rows
\* whose directory held all four key files at the start, and they are the
\* rows counted as skipped; every other row is in the list, in table order,
\* whatever else its directory held; and a call for a sample begins with
\* FETCH_A.
C15_SkipIffComplete ==
    (pc \in {"pipeline", "report"}) =>
        /\ todo = [j \in 1..(Len(samples) - Cardinality(SkippedRows)) |->
                     samples[Ascending((1..Len(samples)) \ SkippedRows)[j]]]
        /\ stats.skipped = Cardinality(SkippedRows)
        /\ \A i \in SkippedRows : \A c \in calls : c.sample # samples[i].Sample
        /\ (pc = "pipeline" /\ \A c \in calls : c.sample # Cur.Sample) => step = <<"FETCH", "A">>
        /\ (pc = "pipeline" /\ step # <<"FETCH", "A">>) =>
               [tool |-> "fetch", sample |-> Cur.Sample] \in calls

\* A run that skipped a complete sample and has started, with its first
\* download, the sample whose directory held three of the four key files.
C15_Witness ==
    /\ pc = "pipeline" /\ step = <<"FETCH", "B">>
    /\ Len(samples) = 2 /\ Len(todo) = 1
    /\ Cardinality({k \in KeyFiles : Join(DirOf(Cur.Sample), k) \in DOMAIN fs0}) = 3
    /\ \E i \in 1..2 : CompleteAtStart(samples[i].Sample)

\* ---- C16
\* The step just taken was a download that returned True.
FetchWentOn == pc = "pipeline" /\ step \in {<<"FETCH", "B">>, <<"CONVERT", "A">>}

\* C16: a download asks for the 3D variant first; it asks for the 2D variant,
\* once, exactly when the 3D request did not succeed; it makes no third
\* request; and the fetch step fails the sample exactly when both requests
\* failed.
C16_FetchFallback ==
    LET r == last.requests
    IN  r # <<>> =>
            /\ r[1].variant = "3d"
            /\ Len(r) <= 2
            /\ Len(r) = 2 <=> ~r[1].ok
            /\ Len(r) = 2 => r[2].variant = "2d"
            /\ FetchWentOn <=> r[Len(r)].ok
            /\ ~FetchWentOn =>
                  /\ \A k \in 1..Len(r) : ~r[k].ok
                  /\ dispatches # <<>>
                  /\ dispatches[Len(dispatches)].outcome = "failed"
                  /\ dispatches[Len(dispatches)].at = "FETCH"

\* The download of molecule B got the 2D variant after the 3D request failed.
C16_Witness ==
    /\ pc = "pipeline" /\ step = <<"CONVERT", "A">>
    /\ last.requests = <<Request("3d", FALSE), Request("2d", TRUE)>>

\* ---- C17
\* C17 as stated: a call of the completion checker changes no file and no
\* directory, and a second call on the unchanged filesystem leaves the skipped
\* counter and the completed list as the first call left them.
C17_CheckerIdempotent ==
    [][(pc \in {"check", "filter"} /\ pc' = "filter") =>
          /\ fs' = fs /\ dirs' = dirs
          /\ pc = "filter" =>
                (stats'.skipped = stats.skipped /\ completed_samples' = completed_samples)]_vars

\* C17 as amended: a call changes no file and no directory, and a second call
\* leaves the skipped counter, the set of ids in the completed list and the
\* pending list computed from it as the first call left them (the list itself
\* holds every complete id once more).
C17_CheckerIdempotentAsSet ==
    [][(pc \in {"check", "filter"} /\ pc' = "filter") =>
          /\ fs' = fs /\ dirs' = dirs
          /\ pc = "filter" =>
                /\ stats'.skipped = stats.skipped
                /\ Range(completed_samples') = Range(completed_samples)
                /\ samples_to_process(samples, completed_samples')
                      = samples_to_process(samples, completed_samples)]_vars

\* The checker was called twice on a table of one complete and one pending
\* sample.
C17_Witness ==
    /\ pc = "filter"
    /\ Len(samples) = 2 /\ stats.skipped = 1
    /\ Len(completed_samples) = 2

\* ---- C18
\* C18: in step 7, for each molecule whose output directory exists, when the
\* step succeeds the sample directory holds the two result files with the
\* content they had there, and the directory and all it held are gone; for a
\* molecule whose output directory is missing the result files of the sample
\* directory are as they were (none created), and the step fails only for a
\* directory that exists and lacks a result file.
C18_Organize ==
    [][(pc = "pipeline" /\ step = <<"ORGANIZE", "">>) =>
          LET Out(b) == Join(SampleDir, b \o ".acpype")
              Names(b) == {b \o "_GMX.gro", b \o "_GMX.itp"}
              succeeded == step' = <<"EXTRACT", "">> /\ dispatches' = dispatches
          IN  /\ \A b \in {"MOA", "MOB"} :
                    IF Out(b) \in dirs
                    THEN succeeded =>
                           /\ \A n \in Names(b) :
                                 /\ Join(SampleDir, n) \in DOMAIN fs'
                                 /\ fs'[Join(SampleDir, n)] = fs[Join(Out(b), n)]
                           /\ Out(b) \notin dirs'
                           /\ \A p \in (DOMAIN fs') \cup dirs' : ~IsUnder(p, Out(b))
                    ELSE \A n \in Names(b) :
                           /\ Join(SampleDir, n) \in DOMAIN fs' <=> Join(SampleDir, n) \in DOMAIN fs
                           /\ Join(SampleDir, n) \in DOMAIN fs =>
                                  fs'[Join(SampleDir, n)] = fs[Join(SampleDir, n)]
              /\ ~succeeded =>
                    \E b \in {"MOA", "MOB"} :
                        Out(b) \in dirs /\ \E n \in Names(b) : Join(Out(b), n) \notin DOMAIN fs]_vars

\* Step 7 succeeded for a sample whose topology step left the output
\* directory of molecule A, with a sub-directory, and none for molecule B.
C18_Witness ==
    /\ step = <<"EXTRACT", "">>
    /\ <<"1", "MOA.acpype", "tmp", "leap.log">> \in DOMAIN fs0
    /\ \A p \in DOMAIN fs0 : ~IsUnder(p, <<"1", "MOB.acpype">>)
    /\ {<<"1", "MOA_GMX.gro">>, <<"1", "MOA_GMX.itp">>} \subseteq DOMAIN fs
    /\ <<"1", "MOB_GMX.itp">> \notin DOMAIN fs
    /\ <<"1", "MOA.acpype">> \notin dirs

\* ---- C19
\* The calls made so far are for the rows of the pending list, in its order,
\* one row after the other; after the loop there is one call for each row.
DispatchedInOrder ==
    /\ \A j \in 1..Len(dispatches) : dispatches[j].Sample = todo[j].Sample
    /\ pc = "pipeline" => Len(dispatches) = idx - 1
    /\ pc \in {"report", "exit", "done"} => Len(dispatches) = Len(todo)

\* The step appends the outcome of the current call to one of the two lists.
AppendsOneOutcome ==
    LET rec == dispatches'[Len(dispatches')]
    IN  /\ Len(dispatches') = Len(dispatches) + 1
        /\ rec.Sample = Cur.Sample
        /\ \/ /\ rec.outcome = "completed"
              /\ completed_samples' = Append(completed_samples, Cur.Sample)
              /\ failed_samples' = failed_samples
           \/ /\ rec.outcome = "failed"
              /\ Len(failed_samples') = Len(failed_samples) + 1
              /\ SubSeq(failed_samples', 1, Len(failed_samples)) = failed_samples
              /\ failed_samples'[Len(failed_samples')].Sample = Cur.Sample
              /\ completed_samples' = completed_samples

\* C19: every run ends; the rows of the pending list are dispatched once
\* each, in order, one at a time; and a call ends, before the next one begins,
\* by one outcome appended to one of the two lists, which change at no other
\* step of the loop.
C19_EveryPendingItemOnce ==
    /\ <>(pc = "done")
    /\ []DispatchedInOrder
    /\ [][pc = "pipeline" =>
             IF pc' = "pipeline" /\ idx' = idx
             THEN /\ dispatches' = dispatches
                  /\ completed_samples' = completed_samples
                  /\ failed_samples' = failed_samples
             ELSE AppendsOneOutcome]_vars

\* A finished run over two pending rows, one completed and one failed.
C19_Witness ==
    /\ pc = "done"
    /\ Len(todo) = 2 /\ Len(dispatches) = 2
    /\ Len(completed_samples) = 1 /\ Len(failed_samples) = 1
    /\ todo[1].Sample # todo[2].Sample

\* ---- C20
\* C20: no step of a call of process_single_sample, whatever its adapter
\* returns, leaves the process in another working directory than it found.
\* (Stated as the claim states it; the code does not satisfy it.)
C20_AdaptersKeepCwd == [][pc = "pipeline" => cwd' = cwd]_vars

\* ---- C21
\* What the completion check of the next run finds: the run is started in the
\* same base directory, reads the same table and probes the files this run
\* left (main.py:165-187, 548-551).
NextRunCompleted == CompletedIds(samples, fs, dirs, BaseDir)

NextRunPending == samples_to_process(samples, NextRunCompleted)

\* The step ends a call of process_single_sample with the given outcome.
Records(outcome) ==
    /\ Len(dispatches') = Len(dispatches) + 1
    /\ dispatches'[Len(dispatches')].outcome = outcome

\* C21: a sample recorded as completed by its call has the four key files in
\* its directory when the call ends, and after the run the completion check
\* of the next run finds it complete and leaves it out of the pending list.
\* (Stated as the claim states it; the code does not satisfy it.)
C21_CompletedIsComplete ==
    /\ [][Records("completed") =>
             IsComplete(fs', dirs', dispatches'[Len(dispatches')].dir)]_vars
    /\ [](pc = "done" =>
            \A i \in 1..Len(dispatches) :
                dispatches[i].outcome = "completed" =>
                    /\ dispatches[i].Sample \in Range(NextRunCompleted)
                    /\ \A j \in 1..Len(NextRunPending) :
                           NextRunPending[j].Sample # dispatches[i].Sample)

\* ---- C22
\* C22: after the run, every sample recorded as failed, at whichever step, is
\* left out of the completed ids by the completion check of the next run and
\* is a row of its pending list.  (Stated as the claim states it; the code
\* does not satisfy it.)
C22_FailedIsPendingNextRun ==
    pc = "done" =>
        \A i \in 1..Len(dispatches) :
            dispatches[i].outcome = "failed" =>
                /\ dispatches[i].Sample \notin Range(NextRunCompleted)
                /\ \E j \in 1..Len(NextRunPending) :
                       NextRunPending[j].Sample = dispatches[i].Sample

====
